---- MODULE Spec2Model ----
(***************************************************************************)
(* Population-analysis service (src/services/population-analysis/main.py). *)
(*                                                                         *)
(* Two request handlers are modelled as state machines:                    *)
(*   population_viability_analysis  (Monte Carlo driver, lines 124-184)    *)
(*   metapopulation_dynamics        (patch coupler,      lines 186-242)    *)
(*                                                                         *)
(* Real numbers (Python floats) are fixed-point integers: the integer v    *)
(* stands for v / SCALE.  Integer request fields (initial_population,      *)
(* carrying_capacity, years, simulations) are plain integers.              *)
(* Optional[int] is a sequence of length 0 (None) or 1 (<<k>>).            *)
(***************************************************************************)
EXTENDS Integers, Sequences, FiniteSets, TLC

VARIABLES
    pc,                 \* position of the handler
    data,               \* the request body (PVAInput / MetapopulationInput)
    response,           \* what the client receives
    sim,                \* PVA: outer loop index            (line 135)
    year,               \* loop index of the yearly loop    (lines 140, 199)
    population,         \* PVA: trajectory of the current replicate (line 136)
    extinct,            \* PVA: line 137
    extinction_time,    \* PVA: line 138
    grown_pop,          \* PVA: new_pop as line 154 leaves it, before line 158
    trajectories,       \* PVA: line 129
    extinction_times,   \* PVA: line 130
    final_populations,  \* PVA: line 131
    quasi_extinctions,  \* PVA: line 132
    populations,        \* metapopulation: matrix, one row per year (line 193)
    total_pops,         \* metapopulation: line 196
    extinction_risks,   \* metapopulation: line 197
    post_growth,        \* metapopulation: current_pops once line 209 has run
    post_migration,     \* metapopulation: new_pops once line 219 has run,
                        \*                 before line 222 clamps it
    ranked_actions,     \* cost-effectiveness: conservation-planning line 369
    next_action,        \* cost-effectiveness: position of the loop of line 377
    optimal_portfolio,  \* cost-effectiveness: line 372
    remaining_budget,   \* cost-effectiveness: line 373
    total_benefit,      \* cost-effectiveness: line 374
    selected_sites,     \* reserve selection: line 436
    remaining_targets,  \* reserve selection: line 437
    available_sites,    \* reserve selection: line 438
    total_cost,         \* reserve selection: line 439
    loop_passes         \* reserve selection: passes of the loop of line 441 begun

vars == <<pc, data, response, sim, year, population, extinct, extinction_time,
          grown_pop,
          trajectories, extinction_times, final_populations, quasi_extinctions,
          populations, total_pops, extinction_risks, post_growth, post_migration,
          ranked_actions, next_action, optimal_portfolio, remaining_budget,
          total_benefit, selected_sites, remaining_targets, available_sites,
          total_cost, loop_passes>>

pvaLocals == <<sim, year, population, extinct, extinction_time, grown_pop, trajectories,
               extinction_times, final_populations, quasi_extinctions>>

metaLocals == <<populations, total_pops, extinction_risks, post_growth,
                post_migration>>

costLocals == <<ranked_actions, next_action, optimal_portfolio, remaining_budget,
                total_benefit>>

reserveLocals == <<selected_sites, remaining_targets, available_sites, total_cost,
                   loop_passes>>

planLocals == <<costLocals, reserveLocals>>

---------------------------------------------------------------------------
(* Bounds of the model *)

\* resolution of the fixed-point numbers: v stands for v / SCALE
SCALE == 1000
\* number of terms of the series that evaluates exp
ExpOrder == 12
\* longest horizon and largest replicate count of the enumerated requests
MaxYears == 2
MaxSims == 2
\* most simulated years (years * simulations) of an enumerated request
MaxWork == 4
\* replicate count of the request that overflows the returned sample
BigSims == 11
\* how far above its mean a Poisson draw is taken
PoissonSpread == 30
\* longest list of actions and of sites of an enumerated request
MaxActions == 3
MaxSites == 3

---------------------------------------------------------------------------
(* Program constants *)

\* quasi_threshold = 50
quasi_threshold == 50
\* "if new_pop < 100": demographic stochasticity below this size
DemographicThreshold == 100
\* trajectories[:10], extinction_times[:10]
SampleSize == 10
\* round(ce_ratio, 4), round(efficiency_ratio, 4): ratios are kept in 1/10000
RatioScale == 10000
\* round(budget_utilization, 1) of a percentage: kept in 1/10 of a percent
PerMille == 1000
\* round(total_cost, 2): amounts are returned in steps of 1/100
Cents == 100
\* validate_actions, validate_sites: "if len(v) < 2"
MinEntries == 2

---------------------------------------------------------------------------
(* Arithmetic on fixed-point numbers *)

Fix(n) == n * SCALE

Min2(a, b) == IF a <= b THEN a ELSE b
Max2(a, b) == IF a >= b THEN a ELSE b

\* floor(a / b) for b # 0 of either sign
Quot(a, b) == IF b > 0 THEN a \div b ELSE (-a) \div (-b)

\* product of two fixed-point numbers, a >= 0 (split so that it stays in 32 bits)
MulFix(a, f) == (a \div SCALE) * f + ((a % SCALE) * f) \div SCALE

RECURSIVE ExpSeries(_, _, _)
ExpSeries(x, k, term) ==
    IF k > ExpOrder \/ term = 0 THEN 0
    ELSE term + ExpSeries(x, k + 1, (term * x) \div (k * SCALE))

\* np.exp on fixed-point numbers: exp(0) = 1, exp(x) > 1 for x > 0,
\* exp(-x) = 1 / exp(x); never 0 (a float exp underflows only below -745)
Exp(x) ==
    IF x >= 0 THEN ExpSeries(x, 1, SCALE)
    ELSE Max2(1, (SCALE * SCALE) \div ExpSeries(-x, 1, SCALE))

None == <<>>
Some(k) == <<k>>

RECURSIVE SumSeq(_)
SumSeq(s) == IF s = <<>> THEN 0 ELSE Head(s) + SumSeq(Tail(s))

RECURSIVE MinSeq(_)
MinSeq(s) == IF Len(s) = 1 THEN s[1] ELSE Min2(Head(s), MinSeq(Tail(s)))

\* Python's s[:n] for n >= 0
Take(s, n) == SubSeq(s, 1, Min2(n, Len(s)))

---------------------------------------------------------------------------
(* Requests *)

\* PVAInput: pydantic checks the field types only; it puts no constraint on
\* the values.  well_typed = FALSE stands for a body pydantic refuses (422).
InitialPopulations == {-5, 40, 150}
GrowthRates == {-SCALE, SCALE \div 2}
Variances == {0, (3 * SCALE) \div 10}
Capacities == {0, 200}

SmallPVARequests ==
    {r \in [endpoint : {"pva"}, well_typed : BOOLEAN,
            initial_population : InitialPopulations, growth_rate : GrowthRates,
            environmental_variance : Variances, carrying_capacity : Capacities,
            years : -1 .. MaxYears, simulations : -1 .. MaxSims] :
        r.years * r.simulations <= MaxWork}

\* one request with more replicates than the returned sample holds
LargePVARequests ==
    [endpoint : {"pva"}, well_typed : {TRUE},
     initial_population : {40}, growth_rate : {SCALE \div 2},
     environmental_variance : {0}, carrying_capacity : {200},
     years : {1}, simulations : {BigSims}]

PVARequests == SmallPVARequests \cup LargePVARequests

NoResponse == [status |-> 0]
Rejected == [status |-> 422]
ServerError(e) == [status |-> 500, error |-> e]

---------------------------------------------------------------------------
(* Random draws, bounded *)

\* np.random.normal(mean, sd): mean + z * sd for a few deviates z; sd = 0
\* returns the mean itself
NormalDeviates == {-1, 0, 1}
NormalDraws(mean, sd) == {mean + z * sd : z \in NormalDeviates}

\* np.random.poisson(lam): a non-negative integer; lam = 0 gives 0.  The
\* draws kept are "no survivor", the integer part of the mean and, where it
\* takes the population out of the demographic regime, a draw PoissonSpread
\* above the mean.
PoissonDraws(lam) ==
    IF lam <= 0 THEN {0}
    ELSE {0, lam \div SCALE}
            \cup {k \in {(lam \div SCALE) + PoissonSpread} : k >= DemographicThreshold}

---------------------------------------------------------------------------
(* population_viability_analysis *)

\* GrowthFactor with the sign of the density term reversed
GrowthFactorReversed(random_growth, current_pop, carrying_capacity) ==
    Exp((random_growth * (Quot(current_pop, carrying_capacity) - SCALE)) \div SCALE)

\* growth_factor = np.exp(random_growth * (1 - current_pop / carrying_capacity))
GrowthFactor(random_growth, current_pop, carrying_capacity) ==
    Exp((random_growth * (SCALE - Quot(current_pop, carrying_capacity))) \div SCALE)

\* new_pop = current_pop * growth_factor
GrowthKernel(random_growth, current_pop, carrying_capacity) ==
    MulFix(current_pop, GrowthFactor(random_growth, current_pop, carrying_capacity))

\* the values population.append(float(new_pop)) can record for a growth output
\* DemographicFilter with the Poisson draw left out
DemographicFilterNever(new_pop) == {new_pop}

DemographicFilterAlways(new_pop) ==
    {Fix(Max2(0, k)) : k \in PoissonDraws(new_pop)}

DemographicFilter(new_pop) ==
    IF new_pop < Fix(DemographicThreshold)
    THEN {Fix(Max2(0, k)) : k \in PoissonDraws(new_pop)}
    ELSE {new_pop}

Last(s) == s[Len(s)]

\* pydantic refuses the body: HTTP 422, the handler never runs
RejectMalformed ==
    /\ pc = "received"
    /\ ~data.well_typed
    /\ pc' = "rejected"
    /\ response' = Rejected
    /\ UNCHANGED <<data, pvaLocals, metaLocals,
                   planLocals>>

\* lines 129-133
StartPVA ==
    /\ pc = "received"
    /\ data.endpoint = "pva"
    /\ data.well_typed
    /\ pc' = "sim_loop"
    /\ sim' = 0
    /\ trajectories' = <<>>
    /\ extinction_times' = <<>>
    /\ final_populations' = <<>>
    /\ quasi_extinctions' = 0
    /\ UNCHANGED <<data, response, year, population, extinct, extinction_time,
                   metaLocals,
                   planLocals, grown_pop>>

\* BeginReplicate with extinct and extinction_time initialised once, above
\* the loop over replicates
BeginReplicateKeepsFlags ==
    /\ pc = "sim_loop"
    /\ sim < data.simulations
    /\ population' = <<Fix(data.initial_population)>>
    /\ year' = 1
    /\ pc' = "year_loop"
    /\ UNCHANGED <<data, response, sim, extinct, extinction_time, trajectories,
                   extinction_times, final_populations, quasi_extinctions, metaLocals,
                   planLocals, grown_pop>>

\* lines 135-138
BeginReplicate ==
    /\ pc = "sim_loop"
    /\ sim < data.simulations
    /\ population' = <<Fix(data.initial_population)>>
    /\ extinct' = FALSE
    /\ extinction_time' = None
    /\ year' = 1
    /\ pc' = "year_loop"
    /\ UNCHANGED <<data, response, sim, trajectories, extinction_times,
                   final_populations, quasi_extinctions, metaLocals,
                   planLocals, grown_pop>>

\* YearExtinct with the bug "population.append(population[-1])"
YearExtinctKeepsValue ==
    /\ pc = "year_loop"
    /\ year <= data.years
    /\ Last(population) <= 0
    /\ population' = Append(population, Last(population))
    /\ extinct' = TRUE
    /\ extinction_time' = IF ~extinct THEN Some(year - 1) ELSE extinction_time
    /\ year' = year + 1
    /\ UNCHANGED <<pc, data, response, sim, trajectories, extinction_times,
                   final_populations, quasi_extinctions, metaLocals,
                   planLocals, grown_pop>>

\* lines 141-146: the population is already at or below zero
YearExtinct ==
    /\ pc = "year_loop"
    /\ year <= data.years
    /\ Last(population) <= 0
    /\ population' = Append(population, 0)
    /\ extinct' = TRUE
    /\ extinction_time' = IF ~extinct THEN Some(year - 1) ELSE extinction_time
    /\ year' = year + 1
    /\ UNCHANGED <<pc, data, response, sim, trajectories, extinction_times,
                   final_populations, quasi_extinctions, metaLocals,
                   planLocals, grown_pop>>

\* line 153 with carrying_capacity = 0: float / int raises ZeroDivisionError,
\* which nothing catches
YearDivideByZero ==
    /\ pc = "year_loop"
    /\ year <= data.years
    /\ Last(population) > 0
    /\ data.carrying_capacity = 0
    /\ pc' = "error"
    /\ response' = ServerError("ZeroDivisionError")
    /\ UNCHANGED <<data, pvaLocals, metaLocals,
                   planLocals>>

\* lines 148-164
YearGrow ==
    /\ pc = "year_loop"
    /\ year <= data.years
    /\ Last(population) > 0
    /\ data.carrying_capacity # 0
    /\ \E random_growth \in NormalDraws(data.growth_rate, data.environmental_variance) :
          /\ grown_pop' =
                GrowthKernel(random_growth, Last(population), data.carrying_capacity)
          /\ \E new_pop \in DemographicFilter(grown_pop') :
                /\ population' = Append(population, new_pop)
                /\ extinct' = (extinct \/ new_pop <= 0)
                /\ extinction_time' =
                      IF new_pop <= 0 /\ ~extinct THEN Some(year) ELSE extinction_time
    /\ year' = year + 1
    /\ UNCHANGED <<pc, data, response, sim, trajectories, extinction_times,
                   final_populations, quasi_extinctions, metaLocals,
                   planLocals>>

\* QuasiExtinct with the bug "population[-1] <= quasi_threshold"
QuasiExtinctFinalOnly(traj) == Last(traj) <= Fix(quasi_threshold)

\* QuasiExtinct with the bug "population[0] <= quasi_threshold"
QuasiExtinctInitialOnly(traj) == traj[1] <= Fix(quasi_threshold)

\* line 170: if min(population) <= quasi_threshold
QuasiExtinct(traj) == MinSeq(traj) <= Fix(quasi_threshold)

\* lines 166-171
EndReplicate ==
    /\ pc = "year_loop"
    /\ year > data.years
    /\ trajectories' = Append(trajectories, population)
    /\ extinction_times' = Append(extinction_times, extinction_time)
    /\ final_populations' = Append(final_populations, Last(population))
    /\ quasi_extinctions' =
          IF QuasiExtinct(population) THEN quasi_extinctions + 1 ELSE quasi_extinctions
    /\ sim' = sim + 1
    /\ pc' = "sim_loop"
    /\ UNCHANGED <<data, response, year, population, extinct, extinction_time,
                   metaLocals,
                   planLocals, grown_pop>>

IsPositive(p) == p > 0
IsSome(t) == t # None

\* ExtinctionProbability with the bug "/ len(extinction_times[:10])"
ExtinctionProbabilityOverSample(times, simulations) ==
    Quot(Fix(Len(SelectSeq(times, IsSome))), Min2(simulations, SampleSize))

\* line 173: sum(1 for t in extinction_times if t is not None) / data.simulations
ExtinctionProbability(times, simulations) ==
    Quot(Fix(Len(SelectSeq(times, IsSome))), simulations)

\* line 174: quasi_extinctions / data.simulations
QuasiExtinctionProb(count, simulations) == Quot(Fix(count), simulations)

\* MeanFinalPop with the bug "np.mean(final_populations)"
MeanFinalPopAll(finals) ==
    IF finals = <<>> THEN 0 ELSE Quot(SumSeq(finals), Len(finals))

\* MeanFinalPop with the bug "the last positive final population"
MeanFinalPopLast(finals) ==
    IF \E i \in 1 .. Len(finals) : finals[i] > 0
    THEN Last(SelectSeq(finals, IsPositive))
    ELSE 0

\* line 175: np.mean([p for p in final_populations if p > 0])
\*           if any(p > 0 for p in final_populations) else 0
MeanFinalPop(finals) ==
    IF \E i \in 1 .. Len(finals) : finals[i] > 0
    THEN SumSeq(SelectSeq(finals, IsPositive)) \div Len(SelectSeq(finals, IsPositive))
    ELSE 0

\* Sample with the slice forgotten
SampleAll(s) == s

\* line 180-181: trajectories[:10], extinction_times[:10]
Sample(s) == Take(s, SampleSize)

\* line 173 with simulations = 0: ZeroDivisionError
AggregateDivideByZero ==
    /\ pc = "sim_loop"
    /\ sim >= data.simulations
    /\ data.simulations = 0
    /\ pc' = "error"
    /\ response' = ServerError("ZeroDivisionError")
    /\ UNCHANGED <<data, pvaLocals, metaLocals,
                   planLocals>>

\* lines 173-184
Aggregate ==
    /\ pc = "sim_loop"
    /\ sim >= data.simulations
    /\ data.simulations # 0
    /\ pc' = "done"
    /\ response' =
          [status |-> 200,
           extinction_probability |->
               ExtinctionProbability(extinction_times, data.simulations),
           mean_final_population |-> MeanFinalPop(final_populations),
           population_trajectories |-> Sample(trajectories),
           years_to_extinction |-> Sample(extinction_times),
           quasi_extinction_probability |->
               QuasiExtinctionProb(quasi_extinctions, data.simulations),
           quasi_extinction_threshold |-> quasi_threshold]
    /\ UNCHANGED <<data, pvaLocals, metaLocals,
                   planLocals>>

InitLocals ==
    /\ pc = "received"
    /\ response = NoResponse
    /\ sim = 0
    /\ year = 0
    /\ population = <<>>
    /\ extinct = FALSE
    /\ extinction_time = None
    /\ grown_pop = 0
    /\ trajectories = <<>>
    /\ extinction_times = <<>>
    /\ final_populations = <<>>
    /\ quasi_extinctions = 0
    /\ populations = <<>>
    /\ total_pops = <<>>
    /\ extinction_risks = <<>>
    /\ post_growth = <<>>
    /\ post_migration = <<>>
    /\ ranked_actions = <<>>
    /\ next_action = 0
    /\ optimal_portfolio = <<>>
    /\ remaining_budget = 0
    /\ total_benefit = 0
    /\ selected_sites = <<>>
    /\ remaining_targets = <<>>
    /\ available_sites = <<>>
    /\ total_cost = 0
    /\ loop_passes = 0

InitPVA == data \in PVARequests /\ InitLocals

NextPVA ==
    \/ RejectMalformed
    \/ StartPVA
    \/ BeginReplicate
    \/ YearExtinct
    \/ YearDivideByZero
    \/ YearGrow
    \/ EndReplicate
    \/ AggregateDivideByZero
    \/ Aggregate

SpecPVA == InitPVA /\ [][NextPVA]_vars

---------------------------------------------------------------------------
(* metapopulation_dynamics: requests *)

\* MetapopulationInput: typed lists, no constraint on lengths or values.
PatchCounts == {1, 2}
PatchPopulations == {0, 50, 150}
PatchCapacities == {0, 100}
PatchGrowthRates == {-(SCALE \div 2), SCALE \div 2}
MigrationRates == {0, SCALE \div 10, (3 * SCALE) \div 2}
DiagonalRates == {0, (3 * SCALE) \div 10}

SeqsOf(S, n) == [1 .. n -> S]

\* the off-diagonal part of a matrix: its diagonal is 0
OffDiagonalCanonical(m) ==
    \A i \in 1 .. Len(m) : m[i][i] = 0

\* A capacity of 0 is paired with a positive growth rate only: numpy then
\* evaluates pop / 0 = inf and exp(r * (1 - inf)) = exp(-inf) = 0.0 without
\* raising (with r <= 0 the float result is inf or nan, outside fixed point).
\* A negative growth rate is paired with migration rates <= 1 only: above its
\* capacity such a patch grows faster than exponentially, and fed by a rate
\* above 1 it leaves the fixed-point range within the horizon.
WellShapedMetaRequests ==
    UNION {
        {r \in [endpoint : {"meta"}, well_typed : {TRUE},
                patch_populations : SeqsOf(PatchPopulations, n),
                patch_capacities : SeqsOf(PatchCapacities, n),
                growth_rates : SeqsOf(PatchGrowthRates, n),
                migration_matrix :
                    {[i \in 1 .. n |-> [j \in 1 .. n |->
                          IF i = j THEN d ELSE m[i][j]]] :
                       m \in {x \in [1 .. n -> [1 .. n -> MigrationRates]] :
                                  OffDiagonalCanonical(x)},
                       d \in DiagonalRates},
                years : 0 .. MaxYears] :
            /\ \A i \in 1 .. n :
                   r.patch_capacities[i] = 0 => r.growth_rates[i] > 0
            /\ (\E i \in 1 .. n : r.growth_rates[i] < 0) =>
                   \A i \in 1 .. n : \A j \in 1 .. n :
                       r.migration_matrix[i][j] <= SCALE}
        : n \in PatchCounts}

DropLast(s) == SubSeq(s, 1, Len(s) - 1)

Shapes == {"caps_short", "caps_long", "rates_short", "rates_long",
           "rows_short", "cols_short", "matrix_long"}

\* a request whose lists do not fit the number of patches
Distort(r, shape) ==
    CASE shape = "caps_short" ->
            [r EXCEPT !.patch_capacities = DropLast(@)]
      [] shape = "caps_long" ->
            [r EXCEPT !.patch_capacities = Append(@, 100)]
      [] shape = "rates_short" ->
            [r EXCEPT !.growth_rates = DropLast(@)]
      [] shape = "rates_long" ->
            [r EXCEPT !.growth_rates = Append(@, SCALE \div 2)]
      [] shape = "rows_short" ->
            [r EXCEPT !.migration_matrix = DropLast(@)]
      [] shape = "cols_short" ->
            [r EXCEPT !.migration_matrix =
                 [i \in 1 .. Len(@) |-> DropLast(@[i])]]
      [] shape = "matrix_long" ->
            [r EXCEPT !.migration_matrix =
                 Append([i \in 1 .. Len(@) |-> Append(@[i], 0)],
                        [j \in 1 .. Len(@) + 1 |-> 0])]

\* the misshapen requests are built from the requests without diagonal rates
MisshapenMetaRequests ==
    {Distort(r, shape) :
        r \in {x \in WellShapedMetaRequests :
                  \A i \in 1 .. Len(x.migration_matrix) :
                      x.migration_matrix[i][i] = 0},
        shape \in Shapes}

\* one body pydantic refuses
IllTypedMetaRequests ==
    {[r EXCEPT !.well_typed = FALSE] :
        r \in {x \in WellShapedMetaRequests :
                  /\ Len(x.patch_populations) = 1
                  /\ x.migration_matrix[1][1] = 0}}

MetaRequests ==
    WellShapedMetaRequests \cup MisshapenMetaRequests \cup IllTypedMetaRequests

---------------------------------------------------------------------------
(* metapopulation_dynamics *)

n_patches == Len(data.patch_populations)

\* line 208: np.exp(growth_rate * (1 - current_pops[patch] / carrying_capacity))
\* on numpy floats: a zero capacity gives exp(-inf) = 0.0 (growth_rate > 0)
MetaGrowthFactor(growth_rate, current_pop, carrying_capacity) ==
    IF carrying_capacity = 0 THEN 0
    ELSE GrowthFactor(growth_rate, current_pop, carrying_capacity)

\* Growth with an empty patch restocked with one individual
GrowthRestocksEmpty(current_pops) ==
    [patch \in 1 .. n_patches |->
        IF current_pops[patch] > 0
        THEN MulFix(current_pops[patch],
                    MetaGrowthFactor(data.growth_rates[patch], current_pops[patch],
                                     data.patch_capacities[patch]))
        ELSE SCALE]

GrowthSharedRate(current_pops) ==
    [patch \in 1 .. n_patches |->
        IF current_pops[patch] > 0
        THEN MulFix(current_pops[patch],
                    MetaGrowthFactor(data.growth_rates[1], current_pops[patch],
                                     data.patch_capacities[patch]))
        ELSE current_pops[patch]]

GrowthSkipsLast(current_pops) ==
    [patch \in 1 .. n_patches |->
        IF current_pops[patch] > 0 /\ (patch < n_patches \/ n_patches = 1)
        THEN MulFix(current_pops[patch],
                    MetaGrowthFactor(data.growth_rates[patch], current_pops[patch],
                                     data.patch_capacities[patch]))
        ELSE current_pops[patch]]

\* lines 203-209
Growth(current_pops) ==
    [patch \in 1 .. n_patches |->
        IF current_pops[patch] > 0
        THEN MulFix(current_pops[patch],
                    MetaGrowthFactor(data.growth_rates[patch], current_pops[patch],
                                     data.patch_capacities[patch]))
        ELSE current_pops[patch]]

\* lines 206-207: an index past the end of growth_rates or patch_capacities
GrowthIndexError(current_pops) ==
    \E patch \in 1 .. n_patches :
        /\ current_pops[patch] > 0
        /\ (patch > Len(data.growth_rates) \/ patch > Len(data.patch_capacities))

\* line 216: an index past the end of migration_matrix or of one of its rows
MigrationIndexError ==
    \E from_patch \in 1 .. n_patches : \E to_patch \in 1 .. n_patches :
        /\ from_patch # to_patch
        /\ IF from_patch > Len(data.migration_matrix) THEN TRUE
           ELSE to_patch > Len(data.migration_matrix[from_patch])

MigrationStepNoEmigration(new_pops, current_pops, from_patch, to_patch) ==
    IF from_patch # to_patch
    THEN LET migration_rate == data.migration_matrix[from_patch][to_patch]
             migrants == MulFix(current_pops[from_patch], migration_rate)
         IN  [new_pops EXCEPT ![to_patch] = @ + migrants]
    ELSE new_pops

\* MigrationStep with the share migration_matrix[i][i] leaving patch i
MigrationStepDiagonalLoss(new_pops, current_pops, from_patch, to_patch) ==
    IF from_patch # to_patch
    THEN LET migration_rate == data.migration_matrix[from_patch][to_patch]
             migrants == MulFix(current_pops[from_patch], migration_rate)
         IN  [new_pops EXCEPT ![from_patch] = @ - migrants,
                              ![to_patch] = new_pops[to_patch] + migrants]
    ELSE IF /\ from_patch \in DOMAIN data.migration_matrix
            /\ from_patch \in DOMAIN data.migration_matrix[from_patch]
         THEN [new_pops EXCEPT ![from_patch] =
                   @ - MulFix(current_pops[from_patch],
                              data.migration_matrix[from_patch][from_patch])]
         ELSE new_pops

MigrationStepSequential(new_pops, current_pops, from_patch, to_patch) ==
    IF from_patch # to_patch
    THEN LET migration_rate == data.migration_matrix[from_patch][to_patch]
             migrants == MulFix(new_pops[from_patch], migration_rate)
         IN  [new_pops EXCEPT ![from_patch] = @ - migrants,
                              ![to_patch] = new_pops[to_patch] + migrants]
    ELSE new_pops

\* lines 216-219: one pass of the inner loop body
MigrationStep(new_pops, current_pops, from_patch, to_patch) ==
    IF from_patch # to_patch
    THEN LET migration_rate == data.migration_matrix[from_patch][to_patch]
             migrants == MulFix(current_pops[from_patch], migration_rate)
         IN  [new_pops EXCEPT ![from_patch] = @ - migrants,
                              ![to_patch] = new_pops[to_patch] + migrants]
    ELSE new_pops

\* lines 213-219: the pairs (from_patch, to_patch) in loop order, k = 0 ..
RECURSIVE MigrationLoop(_, _, _)
MigrationLoop(new_pops, current_pops, k) ==
    IF k >= n_patches * n_patches THEN new_pops
    ELSE MigrationLoop(
             MigrationStep(new_pops, current_pops,
                           (k \div n_patches) + 1, (k % n_patches) + 1),
             current_pops, k + 1)

\* lines 212-219: new_pops = current_pops.copy(), then the loops
Migration(current_pops) == MigrationLoop(current_pops, current_pops, 0)

\* Clamp with the floor at one individual
ClampFloorOne(new_pops) == [patch \in 1 .. Len(new_pops) |-> Max2(new_pops[patch], SCALE)]

ClampNothing(new_pops) == new_pops

\* line 222: np.maximum(new_pops, 0)
Clamp(new_pops) == [patch \in 1 .. Len(new_pops) |-> Max2(new_pops[patch], 0)]

\* lines 227-228: np.sum(new_pops < 1) / n_patches
ExtinctionRisk(new_pops) ==
    Quot(Fix(Cardinality({patch \in 1 .. Len(new_pops) : new_pops[patch] < Fix(1)})),
         n_patches)

\* lines 189-197
StartMeta ==
    /\ pc = "received"
    /\ data.endpoint = "meta"
    /\ data.well_typed
    /\ pc' = "meta_loop"
    /\ populations' =
          [row \in 1 .. data.years + 1 |->
              [patch \in 1 .. n_patches |->
                  IF row = 1 THEN Fix(data.patch_populations[patch]) ELSE 0]]
    /\ total_pops' = <<>>
    /\ extinction_risks' = <<>>
    /\ year' = 0
    /\ UNCHANGED <<data, response, sim, population, extinct, extinction_time,
                   trajectories, extinction_times, final_populations,
                   quasi_extinctions, post_growth, post_migration,
                   planLocals, grown_pop>>

\* lines 199-219 when a list is too short: IndexError, which nothing catches
MetaYearIndexError ==
    /\ pc = "meta_loop"
    /\ year < data.years
    /\ \/ GrowthIndexError(populations[year + 1])
       \/ MigrationIndexError
    /\ pc' = "error"
    /\ response' = ServerError("IndexError")
    /\ UNCHANGED <<data, pvaLocals, metaLocals,
                   planLocals>>

\* lines 199-231: one pass of the yearly loop
MetaYear ==
    /\ pc = "meta_loop"
    /\ year < data.years
    /\ ~GrowthIndexError(populations[year + 1])
    /\ ~MigrationIndexError
    /\ post_growth' = Growth(populations[year + 1])
    /\ post_migration' = Migration(post_growth')
    /\ LET new_pops == Clamp(post_migration')
       IN  /\ populations' = [populations EXCEPT ![year + 2] = new_pops]
           /\ total_pops' = Append(total_pops, SumSeq(new_pops))
           /\ extinction_risks' = Append(extinction_risks, ExtinctionRisk(new_pops))
    /\ year' = year + 1
    /\ UNCHANGED <<pc, data, response, sim, population, extinct, extinction_time,
                   trajectories, extinction_times, final_populations,
                   quasi_extinctions,
                   planLocals, grown_pop>>

MetaFinishNoInitial ==
    /\ pc = "meta_loop"
    /\ year >= data.years
    /\ pc' = "done"
    /\ response' =
          [status |-> 200,
           years |-> [t \in 1 .. data.years + 1 |-> t - 1],
           patch_populations |-> populations,
           total_population |-> total_pops,
           extinction_risk |-> extinction_risks]
    /\ UNCHANGED <<data, pvaLocals, metaLocals,
                   planLocals>>

\* lines 233-242
MetaFinish ==
    /\ pc = "meta_loop"
    /\ year >= data.years
    /\ total_pops' = <<Fix(SumSeq(data.patch_populations))>> \o total_pops
    /\ extinction_risks' = <<0>> \o extinction_risks
    /\ pc' = "done"
    /\ response' =
          [status |-> 200,
           years |-> [t \in 1 .. data.years + 1 |-> t - 1],
           patch_populations |-> populations,
           total_population |-> total_pops',
           extinction_risk |-> extinction_risks']
    /\ UNCHANGED <<data, pvaLocals, populations, post_growth, post_migration,
                   planLocals>>

InitMeta == data \in MetaRequests /\ InitLocals

NextMeta ==
    \/ RejectMalformed
    \/ StartMeta
    \/ MetaYearIndexError
    \/ MetaYear
    \/ MetaFinish

SpecMeta == InitMeta /\ [][NextMeta]_vars

\* the handler runs to its end once called: every loop of it is a bounded for
SpecMetaLive == SpecMeta /\ WF_vars(NextMeta)

---------------------------------------------------------------------------
(* Properties of population_viability_analysis, checked under SpecPVA *)

\* every trajectory the handler holds: the finished replicates and, inside
\* the yearly loop, the replicate being simulated
AllTrajectories ==
    {trajectories[i] : i \in 1 .. Len(trajectories)}
        \cup (IF pc = "year_loop" THEN {population} ELSE {})

Returned == pc = "done" /\ response.status = 200

\* the replicates (by index) whose trajectory satisfies P
Replicates(P(_)) == {i \in 1 .. Len(trajectories) : P(trajectories[i])}

HasNonPositive(traj) == \E k \in 1 .. Len(traj) : traj[k] <= 0
ReachesThreshold(traj) == \E k \in 1 .. Len(traj) : traj[k] <= Fix(quasi_threshold)

RECURSIVE SumOver(_, _)
SumOver(f, S) ==
    IF S = {} THEN 0
    ELSE LET i == CHOOSE j \in S : TRUE IN f[i] + SumOver(f, S \ {i})

\* q is count / n rounded down to the fixed-point resolution
IsRatio(q, count, n) == n > 0 /\ q * n <= Fix(count) /\ Fix(count) < (q + 1) * n

\* C1: extinction is absorbing inside every replicate trajectory: once a
\* value of a trajectory is <= 0, every later value of it is 0.
C1_ExtinctionAbsorbing ==
    \A traj \in AllTrajectories :
        \A k \in 1 .. Len(traj) : \A j \in 1 .. Len(traj) :
            (k < j /\ traj[k] <= 0) => traj[j] = 0

\* a finished replicate that was alive at year 0, died at year 1 and stayed
\* at 0 in year 2
C1_Witness ==
    \E i \in 1 .. Len(trajectories) :
        /\ Len(trajectories[i]) = 3
        /\ trajectories[i][1] > 0
        /\ trajectories[i][2] = 0
        /\ trajectories[i][3] = 0

InvalidPVAConfig ==
    \/ data.initial_population <= 0
    \/ data.carrying_capacity <= 0
    \/ data.years <= 0
    \/ data.simulations <= 0

\* C2: a population-viability request with initial_population <= 0,
\* carrying_capacity <= 0, years <= 0 or simulations <= 0 is rejected before
\* anything is simulated: the handler never starts, no unhandled error is
\* raised and no result is computed.
C2_InvalidConfigRejected ==
    (data.endpoint = "pva" /\ InvalidPVAConfig) =>
        /\ Len(population) <= 1         \* no year of a replicate simulated
        /\ pc # "error"                 \* no unhandled error
        /\ pc # "done"                  \* no computed result

\* C4: mean_final_population is the average of the final values over exactly
\* the replicates whose final value is > 0, and 0 when there is none; with
\* at least one replicate and all of them at <= 0 no division error is raised.
C4_MeanFinalPopulation ==
    LET alive == {i \in 1 .. Len(final_populations) : final_populations[i] > 0}
        m == response.mean_final_population
    IN  /\ Returned =>
              /\ \A i \in 1 .. Len(trajectories) :
                     final_populations[i] = Last(trajectories[i])
              /\ IF alive = {} THEN m = 0
                 ELSE /\ m * Cardinality(alive) <= SumOver(final_populations, alive)
                      /\ SumOver(final_populations, alive) < (m + 1) * Cardinality(alive)
        /\ (pc = "error" /\ data.simulations >= 1 /\ alive = {})
              => Len(final_populations) < data.simulations

\* a result over replicates of which one survived and one did not
C4_Witness ==
    /\ Returned
    /\ \E i \in 1 .. Len(final_populations) : final_populations[i] > 0
    /\ \E i \in 1 .. Len(final_populations) : final_populations[i] <= 0
    /\ response.mean_final_population > 0

\* C5: extinction_probability is the number of replicates whose trajectory
\* holds a value <= 0, divided by the number of replicates S, over all S.
C5_ExtinctionProbability ==
    (Returned /\ data.simulations > 0) =>
        /\ Len(trajectories) = data.simulations
        /\ IsRatio(response.extinction_probability,
                   Cardinality(Replicates(HasNonPositive)), data.simulations)

\* C6: quasi_extinction_probability is the number of replicates whose
\* minimum over the whole trajectory, year 0 included, is <= 50, divided by
\* the number of replicates S, extinct or not.
C6_QuasiExtinctionProbability ==
    Returned =>
        IF data.simulations > 0
        THEN /\ Len(trajectories) = data.simulations
             /\ IsRatio(response.quasi_extinction_probability,
                        Cardinality(Replicates(ReachesThreshold)), data.simulations)
        ELSE Len(trajectories) = 0 /\ response.quasi_extinction_probability = 0

\* a result with a replicate that is quasi-extinct only through its year-0
\* value and never extinct, and a replicate that went extinct
C6_Witness ==
    /\ Returned
    /\ \E i \in 1 .. Len(trajectories) :
          /\ trajectories[i][1] <= Fix(quasi_threshold)
          /\ ~HasNonPositive(trajectories[i])
          /\ \A k \in 2 .. Len(trajectories[i]) :
                 trajectories[i][k] > Fix(quasi_threshold)
          /\ Len(trajectories[i]) > 1
    /\ \E i \in 1 .. Len(trajectories) : HasNonPositive(trajectories[i])

\* the first index (year) of a trajectory with a value <= 0, None without one
FirstExtinctYear(traj) ==
    IF HasNonPositive(traj)
    THEN Some(CHOOSE k \in 0 .. Len(traj) - 1 :
                  /\ traj[k + 1] <= 0
                  /\ \A j \in 0 .. k - 1 : traj[j + 1] > 0)
    ELSE None

\* C7: the recorded extinction year of every replicate is the smallest year
\* k with trajectory[k] <= 0, and None exactly when the trajectory has no
\* value <= 0; year 0 and the final year included.
C7_ExtinctionYear ==
    \A i \in 1 .. Len(trajectories) :
        extinction_times[i] = FirstExtinctYear(trajectories[i])

\* C8: quasi_extinction_probability >= extinction_probability.
C8_QuasiAtLeastExtinction ==
    Returned => response.quasi_extinction_probability >= response.extinction_probability

\* a result where some but not all replicates went extinct
C8_Witness ==
    /\ Returned
    /\ response.extinction_probability > 0
    /\ response.extinction_probability < Fix(1)
    /\ data.initial_population > quasi_threshold

\* C9: extinction_probability and quasi_extinction_probability lie in [0,1]
\* and mean_final_population is >= 0.
C9_ResultRanges ==
    Returned =>
        /\ 0 <= response.extinction_probability
        /\ response.extinction_probability <= Fix(1)
        /\ 0 <= response.quasi_extinction_probability
        /\ response.quasi_extinction_probability <= Fix(1)
        /\ response.mean_final_population >= 0

\* a result over more replicates than the sample holds, all of them extinct
C9_Witness ==
    /\ Returned
    /\ data.simulations > SampleSize
    /\ response.extinction_probability = Fix(1)
    /\ response.quasi_extinction_probability = Fix(1)

\* C10: the result returns the first min(10, S) replicates in replicate
\* order, years_to_extinction has the same length with entry i the
\* extinction year of trajectory i, neither has more than 10 entries, and
\* the probabilities count all S replicates.
C10_BoundedSample ==
    Returned =>
        LET n == Min2(SampleSize, Max2(data.simulations, 0)) IN
        /\ Len(trajectories) = Max2(data.simulations, 0)
        /\ Len(extinction_times) = Len(trajectories)
        /\ Len(response.population_trajectories) = n
        /\ Len(response.years_to_extinction) = n
        /\ n <= SampleSize
        /\ \A i \in 1 .. n :
              /\ response.population_trajectories[i] = trajectories[i]
              /\ response.years_to_extinction[i] = extinction_times[i]
        /\ data.simulations > 0 =>
              /\ IsRatio(response.extinction_probability,
                         Cardinality({i \in 1 .. Len(extinction_times) :
                                          extinction_times[i] # None}),
                         data.simulations)
              /\ IsRatio(response.quasi_extinction_probability,
                         Cardinality(Replicates(ReachesThreshold)), data.simulations)

\* a result over more than 10 replicates in which only a replicate outside
\* the sample went extinct
C10_Witness ==
    /\ Returned
    /\ Len(trajectories) > SampleSize
    /\ \A i \in 1 .. SampleSize : extinction_times[i] = None
    /\ extinction_times[Len(trajectories)] # None
    /\ response.extinction_probability > 0

---------------------------------------------------------------------------
(* Properties of metapopulation_dynamics, checked under SpecMeta *)

MalformedMetaRequest ==
    \/ Len(data.patch_capacities) # n_patches
    \/ Len(data.growth_rates) # n_patches
    \/ \E i \in 1 .. Len(data.patch_capacities) : data.patch_capacities[i] <= 0
    \/ Len(data.migration_matrix) # n_patches
    \/ \E i \in 1 .. Len(data.migration_matrix) :
           Len(data.migration_matrix[i]) # n_patches

\* C3: a metapopulation request whose three patch lists do not all have the
\* same length n, or with a capacity <= 0, or whose migration matrix is not
\* n by n, is rejected before the first yearly step is simulated.
C3_MalformedMetaRejected ==
    (data.endpoint = "meta" /\ MalformedMetaRequest) =>
        /\ total_pops = <<>>            \* no yearly step simulated
        /\ pc # "error"                 \* no unhandled error
        /\ pc # "done"                  \* no computed result

---------------------------------------------------------------------------
(* Further properties of population_viability_analysis, under SpecPVA *)

\* C11: every replicate trajectory has exactly years + 1 entries and its
\* entry 0 is the configured initial population, extinct replicates included.
C11_TrajectoryLength ==
    \A i \in 1 .. Len(trajectories) :
        /\ Len(trajectories[i]) = data.years + 1
        /\ trajectories[i][1] = Fix(data.initial_population)

\* one step of the deterministic logistic recurrence N * exp(r * (1 - N / K))
LogisticStep(r, N, K) == MulFix(N, Exp((r * (SCALE - Quot(N, K))) \div SCALE))

AtLeastThreshold(traj) == \A k \in 1 .. Len(traj) : traj[k] >= Fix(DemographicThreshold)

\* C12 as claimed: for valid configs with environmental_variance = 0, every replicate whose
\* population is >= 100 at every year follows the deterministic logistic
\* recurrence trajectory[t+1] = trajectory[t] * exp(r * (1 - trajectory[t]/K)).
C12_DeterministicRecurrence ==
    \A traj \in AllTrajectories :
        (~InvalidPVAConfig /\ data.environmental_variance = 0 /\ AtLeastThreshold(traj)) =>
            \A t \in 1 .. Len(traj) - 1 :
                traj[t + 1] = LogisticStep(data.growth_rate, traj[t], data.carrying_capacity)

\* C12 as amended: with environmental_variance = 0, every step of a
\* replicate whose growth output is >= 100 records exactly that output, the
\* deterministic logistic recurrence; a recorded value >= 100 that is a
\* Poisson draw from an output < 100 does not follow it.
C12_DeterministicAboveThreshold ==
    \A traj \in AllTrajectories :
        data.environmental_variance = 0 =>
            \A t \in 1 .. Len(traj) - 1 :
                (traj[t] > 0 /\ data.carrying_capacity # 0
                 /\ LogisticStep(data.growth_rate, traj[t], data.carrying_capacity)
                        >= Fix(DemographicThreshold))
                    => traj[t + 1] =
                           LogisticStep(data.growth_rate, traj[t], data.carrying_capacity)

\* two finished replicates of one variance-free request that stayed >= 100
\* for two years, both on the recurrence
C12_Witness ==
    /\ data.environmental_variance = 0
    /\ Len(trajectories) = 2
    /\ \A i \in 1 .. 2 :
          /\ Len(trajectories[i]) = 3
          /\ AtLeastThreshold(trajectories[i])
          /\ trajectories[i][3] # trajectories[i][1]
    /\ trajectories[1] = trajectories[2]

---------------------------------------------------------------------------
(* Further properties of metapopulation_dynamics *)

\* at least one pass of the yearly loop has run
YearStepped == pc \in {"meta_loop", "done"} /\ year >= 1

Patches == 1 .. n_patches

\* C13: in every yearly step migration alone conserves the total: the sum
\* over patches of the post-growth populations equals the sum over patches of
\* the post-migration populations before the clamp, for every matrix.
C13_MigrationConservesTotal ==
    YearStepped => SumSeq(post_migration) = SumSeq(post_growth)

\* a step in which migration moved individuals out of a patch at a rate > 1
C13_Witness ==
    /\ YearStepped
    /\ post_migration # post_growth
    /\ SumSeq(post_growth) > 0
    /\ \E i \in Patches : \E j \in Patches :
          i # j /\ data.migration_matrix[i][j] > SCALE /\ post_growth[i] > 0

Emigrants(g, i) ==
    SumOver([j \in Patches |-> MulFix(g[i], data.migration_matrix[i][j])], Patches \ {i})

Immigrants(g, i) ==
    SumOver([j \in Patches |-> MulFix(g[j], data.migration_matrix[j][i])], Patches \ {i})

\* C14: migration is one batch update of the post-growth vector g: the
\* pre-clamp population of patch i is g[i] minus the sum over j # i of
\* g[i] * rate[i][j] plus the sum over j # i of g[j] * rate[j][i]; no emigrant
\* count uses an already updated population.
C14_BatchMigration ==
    YearStepped =>
        \A i \in Patches :
            post_migration[i] =
                post_growth[i] - Emigrants(post_growth, i) + Immigrants(post_growth, i)

\* a step with migrants in both directions between two occupied patches
C14_Witness ==
    /\ YearStepped
    /\ n_patches = 2
    /\ Emigrants(post_growth, 1) > 0
    /\ Emigrants(post_growth, 2) > 0

\* the sum of the per-year emigration rates out of patch i
OutflowRate(i) == SumOver(data.migration_matrix[i], Patches \ {i})

ExcessOutflow ==
    /\ data.endpoint = "meta"
    /\ data.well_typed
    /\ ~MalformedMetaRequest
    /\ \E i \in Patches : OutflowRate(i) > SCALE

RecordedRows == IF pc \in {"meta_loop", "done"} THEN 2 .. year + 1 ELSE {}

\* C15: a request in which the total outflow rate of some patch exceeds 1 is
\* not rejected and raises no error, its simulation completes, and every patch
\* population recorded for a year t >= 1 is >= 0.
C15_ExcessOutflowClamped ==
    /\ [](ExcessOutflow =>
            /\ pc \notin {"rejected", "error"}
            /\ \A row \in RecordedRows : \A i \in Patches : populations[row][i] >= 0)
    /\ (ExcessOutflow ~> (Returned /\ Len(response.patch_populations) = data.years + 1))

\* a finished run whose last step left a patch negative, recorded as 0
C15_Witness ==
    /\ ExcessOutflow
    /\ Returned
    /\ year >= 1
    /\ \E i \in Patches : post_migration[i] < 0 /\ response.patch_populations[year + 1][i] = 0

\* the patches of a recorded row whose population is below one individual
ExtinctPatches(row) == {i \in Patches : row[i] < Fix(1)}

RiskIsShare(t) ==
    IsRatio(response.extinction_risk[t],
            Cardinality(ExtinctPatches(response.patch_populations[t])), n_patches)

\* C16: for every year t in 0..T of a returned run of a well-formed request,
\* extinction_risk[t] is the number of patches whose recorded population at
\* year t is < 1 divided by the number of patches, year 0 (the initial
\* populations) included.
C16_ExtinctionRiskEveryYear ==
    (Returned /\ ~MalformedMetaRequest /\ data.years >= 1) => \A t \in 1 .. Len(response.extinction_risk) : RiskIsShare(t)

\* the same for the simulated years 1..T only
SimulatedYearsRiskIsShare ==
    Returned => \A t \in 2 .. Len(response.extinction_risk) : RiskIsShare(t)

\* C17: a returned run over T years has T + 1 entries in each of years,
\* patch_populations, total_population and extinction_risk, every
\* patch_populations row has one entry per patch, and total_population[t] is
\* the sum of patch_populations[t] for every year t in 0..T; for year 0 that is
\* the sum of the initial patch populations.
C17_ResultShape ==
    Returned =>
        /\ Len(response.years) = data.years + 1
        /\ Len(response.patch_populations) = data.years + 1
        /\ Len(response.total_population) = data.years + 1
        /\ Len(response.extinction_risk) = data.years + 1
        /\ \A t \in 1 .. data.years + 1 :
              /\ response.years[t] = t - 1
              /\ Len(response.patch_populations[t]) = n_patches
              /\ response.total_population[t] = SumSeq(response.patch_populations[t])
        /\ response.total_population[1] = Fix(SumSeq(data.patch_populations))

\* a returned two-patch, two-year run whose total changed every year
C17_Witness ==
    /\ Returned
    /\ data.years = 2
    /\ n_patches = 2
    /\ response.total_population[1] > 0
    /\ response.total_population[2] # response.total_population[1]
    /\ response.total_population[3] # response.total_population[2]

ZeroMigration ==
    /\ data.endpoint = "meta"
    /\ data.well_typed
    /\ ~MalformedMetaRequest
    /\ \A i \in Patches : \A j \in Patches : data.migration_matrix[i][j] = 0

\* one year of a single-patch deterministic logistic run (lines 204-209 and
\* 222 for one patch on its own)
SinglePatchYear(N, r, K) ==
    Max2(0, IF N > 0 THEN MulFix(N, Exp((r * (SCALE - Quot(N, K))) \div SCALE)) ELSE N)

RECURSIVE SinglePatchRun(_, _, _, _)
SinglePatchRun(N0, r, K, t) ==
    IF t = 0 THEN N0 ELSE SinglePatchYear(SinglePatchRun(N0, r, K, t - 1), r, K)

MetaRows == IF pc \in {"meta_loop", "done"} THEN 1 .. year + 1 ELSE {}

\* C18: with an all-zero migration matrix the trajectory of every patch
\* equals an independent single-patch deterministic logistic run with the
\* patch's initial population, capacity and growth rate.
C18_ZeroMigrationIndependent ==
    ZeroMigration =>
        \A row \in MetaRows : \A i \in Patches :
            populations[row][i] =
                SinglePatchRun(Fix(data.patch_populations[i]), data.growth_rates[i],
                               data.patch_capacities[i], row - 1)

\* a returned two-year run of two occupied patches with different growth rates
C18_Witness ==
    /\ ZeroMigration
    /\ Returned
    /\ data.years = 2
    /\ n_patches = 2
    /\ data.growth_rates[1] # data.growth_rates[2]
    /\ \A i \in Patches : populations[3][i] > 0 /\ populations[3][i] # populations[1][i]

\* C19: with an all-zero migration matrix, two patches with the same initial
\* population, capacity and growth rate have identical populations at every
\* year 0..T.
C19_EqualPatchesEqualTrajectories ==
    ZeroMigration =>
        \A i \in Patches : \A j \in Patches :
            (/\ data.patch_populations[i] = data.patch_populations[j]
             /\ data.patch_capacities[i] = data.patch_capacities[j]
             /\ data.growth_rates[i] = data.growth_rates[j])
                => \A row \in MetaRows : populations[row][i] = populations[row][j]

\* a returned two-year run of two identical occupied patches that changed
C19_Witness ==
    /\ ZeroMigration
    /\ Returned
    /\ data.years = 2
    /\ n_patches = 2
    /\ data.patch_populations[1] = data.patch_populations[2]
    /\ data.patch_capacities[1] = data.patch_capacities[2]
    /\ data.growth_rates[1] = data.growth_rates[2]
    /\ populations[3][1] # populations[1][1]
    /\ populations[3][1] = populations[3][2]

---------------------------------------------------------------------------
(* Independence of the replicates of population_viability_analysis *)

\* the values one pass of the yearly loop (lines 141-160) can record after N,
\* for the configuration and the draws of that pass alone
YearOutcomes(N) ==
    IF N <= 0 THEN {0}
    ELSE IF data.carrying_capacity = 0 THEN {}
    ELSE UNION {DemographicFilter(GrowthKernel(random_growth, N, data.carrying_capacity)) :
                   random_growth \in NormalDraws(data.growth_rate,
                                                 data.environmental_variance)}

\* the extinction year lines 141-146 and 162-164 derive from a trajectory: it is
\* looked for only inside the yearly loop
OwnExtinctionTime(traj) == IF Len(traj) <= 1 THEN None ELSE FirstExtinctYear(traj)

StartsFresh ==
    (pc = "sim_loop" /\ pc' = "year_loop") =>
        /\ population' = <<Fix(data.initial_population)>>
        /\ extinct' = FALSE
        /\ extinction_time' = None

OwnRecord(i) ==
    LET traj == trajectories[i]
    IN  /\ traj[1] = Fix(data.initial_population)
        /\ \A t \in 1 .. Len(traj) - 1 : traj[t + 1] \in YearOutcomes(traj[t])
        /\ extinction_times[i] = OwnExtinctionTime(traj)
        /\ final_populations[i] = Last(traj)

\* C20: no state is carried over between replicates: every replicate starts
\* from the configured initial population, not extinct and with no
\* extinction year, and its recorded trajectory, extinction year, final value
\* and minimum (the quasi-extinction count) follow from the configuration and
\* its own yearly draws, whatever the other replicates recorded.
C20_ReplicatesIndependent ==
    /\ [][StartsFresh]_vars
    /\ [](/\ \A i \in 1 .. Len(trajectories) : OwnRecord(i)
          /\ quasi_extinctions = Cardinality(Replicates(QuasiExtinct)))

\* a replicate that never went extinct recorded after one that did
C20_Witness ==
    /\ Len(trajectories) = 2
    /\ Len(trajectories[1]) = 3
    /\ extinction_times[1] # None
    /\ extinction_times[2] = None
    /\ Last(trajectories[1]) = 0
    /\ Last(trajectories[2]) > Fix(quasi_threshold)

---------------------------------------------------------------------------
(* Order of the replicates of population_viability_analysis *)

\* a list with the entries i and j exchanged; the exchanges generate every
\* permutation of the list
Swap(s, i, j) == [s EXCEPT ![i] = s[j], ![j] = s[i]]

\* lines 170-171 over a list of finished trajectories, in list order
RECURSIVE CountQuasi(_)
CountQuasi(trajs) ==
    IF trajs = <<>> THEN 0
    ELSE (IF QuasiExtinct(Head(trajs)) THEN 1 ELSE 0) + CountQuasi(Tail(trajs))

\* C21: the aggregate of a run does not depend on the order in which the
\* replicates were executed and combined: with any two replicates exchanged,
\* extinction_probability, quasi_extinction_probability and
\* mean_final_population come out as returned.
C21_AggregateOrderIndependent ==
    Returned =>
        \A i \in 1 .. Len(trajectories) : \A j \in 1 .. Len(trajectories) :
            /\ ExtinctionProbability(Swap(extinction_times, i, j), data.simulations)
                   = response.extinction_probability
            /\ QuasiExtinctionProb(CountQuasi(Swap(trajectories, i, j)), data.simulations)
                   = response.quasi_extinction_probability
            /\ MeanFinalPop(Swap(final_populations, i, j))
                   = response.mean_final_population

\* a returned run of two replicates that ended at different positive sizes
C21_Witness ==
    /\ Returned
    /\ Len(final_populations) = 2
    /\ final_populations[1] > 0
    /\ final_populations[2] > 0
    /\ final_populations[1] # final_populations[2]
    /\ response.mean_final_population # final_populations[1]

---------------------------------------------------------------------------
(* conservation-planning: analyze_cost_effectiveness.  Amounts (costs,       *)
(* benefits, budgets) are fixed-point numbers like the populations above.    *)

\* a / b rounded to the nearest integer, ties to the even one (Python's
\* round), for a >= 0 and b > 0
RoundDiv(a, b) ==
    LET q == a \div b
        r == a % b
    IN  IF 2 * r < b THEN q
        ELSE IF 2 * r > b THEN q + 1
        ELSE IF q % 2 = 0 THEN q ELSE q + 1

\* round(amount, 2)
Round2(amount) == RoundDiv(amount, SCALE \div Cents) * (SCALE \div Cents)

ActionCosts == {0, (2 * SCALE) \div 5, SCALE}
ActionBenefits == {SCALE, 3 * SCALE}
Budgets == {0, SCALE, (3 * SCALE) \div 2}

ActionLists ==
    UNION {[1 .. n -> [cost : ActionCosts, benefit : ActionBenefits]] : n \in 1 .. MaxActions}

CostRequests ==
    [endpoint : {"cost"}, actions : ActionLists, budget_constraint : Budgets]

\* Field(..., gt=0) of budget_constraint and validate_actions
InvalidCostRequest ==
    \/ Len(data.actions) < MinEntries
    \/ \E i \in 1 .. Len(data.actions) : data.actions[i].cost <= 0
    \/ data.budget_constraint <= 0

\* pydantic refuses the body: HTTP 422, the handler never runs
RejectCostRequest ==
    /\ pc = "received"
    /\ data.endpoint = "cost"
    /\ InvalidCostRequest
    /\ pc' = "rejected"
    /\ response' = Rejected
    /\ UNCHANGED <<data, pvaLocals, metaLocals, planLocals>>

\* lines 347-366: one entry of action_analysis
Analysis(actions, i) ==
    [cost |-> actions[i].cost,
     benefit |-> actions[i].benefit,
     ce_ratio |-> IF actions[i].cost > 0
                  THEN RoundDiv(actions[i].benefit * RatioScale, actions[i].cost)
                  ELSE 0,
     action_index |-> i - 1]

\* sorted(..., key = ce_ratio, reverse = True): descending and stable
RECURSIVE InsertRanked(_, _)
InsertRanked(a, s) ==
    IF s = <<>> THEN <<a>>
    ELSE IF Head(s).ce_ratio >= a.ce_ratio
         THEN <<Head(s)>> \o InsertRanked(a, Tail(s))
         ELSE <<a>> \o s

RECURSIVE SortedByRatio(_)
SortedByRatio(s) ==
    IF s = <<>> THEN <<>>
    ELSE InsertRanked(Last(s), SortedByRatio(SubSeq(s, 1, Len(s) - 1)))

\* lines 342-374
StartCost ==
    /\ pc = "received"
    /\ data.endpoint = "cost"
    /\ ~InvalidCostRequest
    /\ ranked_actions' =
          SortedByRatio([i \in 1 .. Len(data.actions) |-> Analysis(data.actions, i)])
    /\ optimal_portfolio' = <<>>
    /\ remaining_budget' = data.budget_constraint
    /\ total_benefit' = 0
    /\ next_action' = 1
    /\ pc' = "portfolio_loop"
    /\ UNCHANGED <<data, response, pvaLocals, metaLocals, reserveLocals>>

\* Affordable with the bug "action['cost'] <= budget"
AffordableWithinBudget(action, remaining) == action.cost <= data.budget_constraint

\* line 378: the test that lets an action into the portfolio
Affordable(action, remaining) == action.cost <= remaining

\* lines 377-381: one pass of the loop over ranked_actions
PortfolioStep ==
    /\ pc = "portfolio_loop"
    /\ next_action <= Len(ranked_actions)
    /\ LET action == ranked_actions[next_action]
       IN  IF Affordable(action, remaining_budget)
           THEN /\ optimal_portfolio' = Append(optimal_portfolio, action)
                /\ remaining_budget' = remaining_budget - action.cost
                /\ total_benefit' = total_benefit + action.benefit
           ELSE UNCHANGED <<optimal_portfolio, remaining_budget, total_benefit>>
    /\ next_action' = next_action + 1
    /\ UNCHANGED <<pc, data, response, ranked_actions, pvaLocals, metaLocals,
                   reserveLocals>>

\* lines 383-406
FinishCost ==
    /\ pc = "portfolio_loop"
    /\ next_action > Len(ranked_actions)
    /\ pc' = "done"
    /\ LET spent == data.budget_constraint - remaining_budget
       IN  response' =
              [status |-> 200,
               ranked_actions |-> ranked_actions,
               optimal_portfolio |-> optimal_portfolio,
               total_cost |-> Round2(spent),
               total_benefit |-> Round2(total_benefit),
               efficiency_ratio |->
                   IF spent > 0 THEN RoundDiv(total_benefit * RatioScale, spent) ELSE 0,
               budget_utilization |-> RoundDiv(spent * PerMille, data.budget_constraint)]
    /\ UNCHANGED <<data, pvaLocals, metaLocals, planLocals>>

InitCost == data \in CostRequests /\ InitLocals

NextCost ==
    \/ RejectCostRequest
    \/ StartCost
    \/ PortfolioStep
    \/ FinishCost

SpecCost == InitCost /\ [][NextCost]_vars

RECURSIVE SumCosts(_)
SumCosts(entries) ==
    IF entries = <<>> THEN 0 ELSE Head(entries).cost + SumCosts(Tail(entries))

\* C22: the portfolio never exceeds the budget: the costs of the selected
\* actions sum to at most budget_constraint, while the portfolio is built and
\* in the returned result, and the returned budget_utilization is within
\* 0..100 percent.
C22_PortfolioWithinBudget ==
    data.endpoint = "cost" =>
        /\ SumCosts(optimal_portfolio) <= data.budget_constraint
        /\ Returned =>
              /\ SumCosts(response.optimal_portfolio) <= data.budget_constraint
              /\ response.budget_utilization >= 0
              /\ response.budget_utilization <= PerMille

\* a returned portfolio of two actions that left out a third, which the
\* whole budget would have paid for
C22_Witness ==
    /\ data.endpoint = "cost"
    /\ Returned
    /\ Len(response.optimal_portfolio) = 2
    /\ Len(response.ranked_actions) = 3
    /\ response.budget_utilization > 0
    /\ \E i \in 1 .. 3 :
          /\ response.ranked_actions[i].cost <= data.budget_constraint
          /\ \A k \in 1 .. 2 :
                response.optimal_portfolio[k].action_index
                    # response.ranked_actions[i].action_index

---------------------------------------------------------------------------
(* conservation-planning: optimize_reserve_selection *)

Species == {"a", "b"}
SpeciesLists == {<<"a">>, <<"a", "b">>}
SiteCosts == {0, (3 * SCALE) \div 500, SCALE}
TargetCounts == {0, 1, 2}

\* the candidate sites: a free one, two cheap ones and a dear one
Sites ==
    {site \in [cost : SiteCosts, species : SpeciesLists] :
        \/ site.cost = 0 /\ site.species = <<"a">>
        \/ site.cost = (3 * SCALE) \div 500
        \/ site.cost = SCALE /\ site.species = <<"a", "b">>}
BudgetLimits == {None, Some((7 * SCALE) \div 1000), Some((3 * SCALE) \div 2)}

SiteLists ==
    UNION {[1 .. n -> Sites] : n \in 1 .. MaxSites}

\* species_targets: a dict from species names to target counts
TargetDicts ==
    {t \in UNION {[K -> TargetCounts] : K \in SUBSET Species} :
        /\ IF "a" \in DOMAIN t THEN t["a"] # 1 ELSE TRUE
        /\ IF "b" \in DOMAIN t THEN t["b"] = 1 ELSE TRUE}

ReserveRequests ==
    [endpoint : {"reserve"}, sites : SiteLists, species_targets : TargetDicts,
     budget_limit : BudgetLimits]

ToSet(list) == {list[i] : i \in 1 .. Len(list)}

\* validate_sites
InvalidReserveRequest == Len(data.sites) < MinEntries

\* pydantic refuses the body: HTTP 422, the handler never runs
RejectReserveRequest ==
    /\ pc = "received"
    /\ data.endpoint = "reserve"
    /\ InvalidReserveRequest
    /\ pc' = "rejected"
    /\ response' = Rejected
    /\ UNCHANGED <<data, pvaLocals, metaLocals, planLocals>>

\* lines 425-431: target species that no site contains
missing_species ==
    DOMAIN data.species_targets
        \ UNION {ToSet(data.sites[i].species) : i \in 1 .. Len(data.sites)}

\* lines 554-555: the ValueError of line 433 becomes HTTP 400
BadRequest == [status |-> 400]

\* lines 425-433, 554-555
ReserveMissingSpecies ==
    /\ pc = "received"
    /\ data.endpoint = "reserve"
    /\ ~InvalidReserveRequest
    /\ missing_species # {}
    /\ pc' = "refused"
    /\ response' = BadRequest
    /\ UNCHANGED <<data, pvaLocals, metaLocals, planLocals>>

\* lines 420-439
StartReserve ==
    /\ pc = "received"
    /\ data.endpoint = "reserve"
    /\ ~InvalidReserveRequest
    /\ missing_species = {}
    /\ selected_sites' = <<>>
    /\ remaining_targets' = data.species_targets
    /\ available_sites' = [i \in 1 .. Len(data.sites) |-> i]
    /\ total_cost' = 0
    /\ loop_passes' = 0
    /\ pc' = "select_loop"
    /\ UNCHANGED <<data, response, pvaLocals, metaLocals, costLocals>>

\* lines 451-454: covered_targets of a site
Covered(site, targets) ==
    Cardinality({sp \in ToSet(site.species) :
                    IF sp \in DOMAIN targets THEN targets[sp] > 0 ELSE FALSE})

\* lines 457-460: efficiency, kept as the fraction num / den
Efficiency(site, covered_targets) ==
    IF site.cost > 0 /\ covered_targets > 0
    THEN [num |-> covered_targets * SCALE, den |-> site.cost]
    ELSE [num |-> covered_targets, den |-> 1]

Greater(e, f) == e.num * f.den > f.num * e.den

\* line 463: the budget test of a candidate site
WithinBudget(spent, site_cost) ==
    IF data.budget_limit = None THEN TRUE
    ELSE spent + site_cost <= data.budget_limit[1]

\* lines 442-444: best_site = None, best_efficiency = 0
NoBest == [best_index |-> 0, site_idx |-> 0, best_efficiency |-> [num |-> 0, den |-> 1]]

\* lines 446-468: the scan of available_sites from position i on
RECURSIVE ScanSites(_, _)
ScanSites(i, best) ==
    IF i > Len(available_sites) THEN best
    ELSE LET site == data.sites[available_sites[i]]
             efficiency == Efficiency(site, Covered(site, remaining_targets))
         IN  ScanSites(i + 1,
                 IF WithinBudget(total_cost, site.cost)
                        /\ Greater(efficiency, best.best_efficiency)
                 THEN [best_index |-> i, site_idx |-> available_sites[i],
                       best_efficiency |-> efficiency]
                 ELSE best)

\* lines 486-488: one target less for every species listed by the site
RECURSIVE Decrement(_, _)
Decrement(targets, species) ==
    IF species = <<>> THEN targets
    ELSE Decrement(
             IF Head(species) \in DOMAIN targets
             THEN [targets EXCEPT ![Head(species)] = Max2(0, @ - 1)]
             ELSE targets,
             Tail(species))

\* line 491: the targets that are still > 0
Unmet(targets) == [sp \in {k \in DOMAIN targets : targets[k] > 0} |-> targets[sp]]

\* PopSite with the selected site left in the list
PopSiteKeeps(sites, best_index) == sites

\* line 494: available_sites.pop(best_index)
PopSite(sites, best_index) ==
    SubSeq(sites, 1, best_index - 1) \o SubSeq(sites, best_index + 1, Len(sites))

\* line 441: the condition of the while loop
MoreToSelect == DOMAIN remaining_targets # {} /\ available_sites # <<>>

\* lines 441-494: one pass of the while loop, up to the break of line 471 or
\* to the end of the body
SelectPass ==
    /\ pc = "select_loop"
    /\ MoreToSelect
    /\ loop_passes' = loop_passes + 1
    /\ LET best == ScanSites(1, NoBest)
       IN  IF best.best_index = 0
           THEN /\ pc' = "selected"
                /\ UNCHANGED <<selected_sites, total_cost, remaining_targets,
                               available_sites>>
           ELSE LET best_site == data.sites[best.site_idx]
                IN  /\ selected_sites' =
                          Append(selected_sites,
                                 [site_index |-> best.site_idx - 1,
                                  cost |-> best_site.cost,
                                  species |-> best_site.species,
                                  efficiency |->
                                      RoundDiv(best.best_efficiency.num * RatioScale,
                                               best.best_efficiency.den)])
                    /\ total_cost' = total_cost + best_site.cost
                    /\ remaining_targets' =
                          Unmet(Decrement(remaining_targets, best_site.species))
                    /\ available_sites' = PopSite(available_sites, best.best_index)
                    /\ pc' = pc
    /\ UNCHANGED <<data, response, pvaLocals, metaLocals, costLocals>>

\* lines 498-515: target, achieved and gap of one target species
Coverage(species) ==
    LET target == data.species_targets[species]
        achieved == Cardinality({k \in 1 .. Len(selected_sites) :
                                    species \in ToSet(selected_sites[k].species)})
    IN  [target |-> target, achieved |-> achieved, gap |-> Max2(0, target - achieved)]

\* lines 496-552, reached when the loop condition fails or from the break
FinishReserve ==
    /\ \/ pc = "select_loop" /\ ~MoreToSelect
       \/ pc = "selected"
    /\ pc' = "done"
    /\ response' =
          [status |-> 200,
           selected_sites |-> selected_sites,
           total_cost |-> Round2(total_cost),
           species_coverage |->
               [species \in DOMAIN data.species_targets |-> Coverage(species)]]
    /\ UNCHANGED <<data, pvaLocals, metaLocals, planLocals>>

InitReserve == data \in ReserveRequests /\ InitLocals

NextReserve ==
    \/ RejectReserveRequest
    \/ ReserveMissingSpecies
    \/ StartReserve
    \/ SelectPass
    \/ FinishReserve

SpecReserve == InitReserve /\ [][NextReserve]_vars

\* the handler runs to its end once called
SpecReserveLive == SpecReserve /\ WF_vars(NextReserve)

---------------------------------------------------------------------------
(* Properties of optimize_reserve_selection *)

Budgeted == data.endpoint = "reserve" /\ data.budget_limit # None

\* the accumulated cost of the selected sites is within the budget
AccumulatedWithinBudget ==
    Budgeted =>
        /\ total_cost <= data.budget_limit[1]
        /\ SumCosts(selected_sites) = total_cost

\* C23: with a budget_limit the budget is enforced at every step of the
\* greedy loop: after each site is added the accumulated cost of the selected
\* sites is <= budget_limit, and the returned total_cost is <= budget_limit,
\* also when the targets cannot all be met within the budget.
C23_BudgetEnforced ==
    Budgeted =>
        /\ total_cost <= data.budget_limit[1]
        /\ Returned => response.total_cost <= data.budget_limit[1]

SelectedIndexes == {selected_sites[k].site_index : k \in 1 .. Len(selected_sites)}

\* a pass of the loop stops it or adds one site, new to the selection, that
\* contains a species whose target was unmet when the pass began
PassStopsOrSelects ==
    (pc = "select_loop" /\ loop_passes' # loop_passes) =>
        \/ pc' = "selected" /\ selected_sites' = selected_sites
        \/ /\ Len(selected_sites') = Len(selected_sites) + 1
           /\ SubSeq(selected_sites', 1, Len(selected_sites)) = selected_sites
           /\ Last(selected_sites').site_index \notin SelectedIndexes
           /\ Covered(data.sites[Last(selected_sites').site_index + 1],
                      remaining_targets) > 0

\* C30: the greedy loop ends after at most len(sites) passes: every pass
\* either stops the loop or selects a site that was not selected before and
\* that contains a species whose target was unmet at that moment, so no site
\* is selected twice, and the handler answers.
C30_GreedyLoopTerminates ==
    /\ [][PassStopsOrSelects]_vars
    /\ [](data.endpoint = "reserve" =>
            /\ loop_passes <= Len(data.sites)
            /\ Cardinality(SelectedIndexes) = Len(selected_sites))
    /\ (data.endpoint = "reserve" ~> pc \in {"rejected", "refused", "done"})

\* a returned selection whose loop used as many passes as there are sites,
\* the last of them stopping it with a site left over
C30_Witness ==
    /\ data.endpoint = "reserve"
    /\ Returned
    /\ loop_passes = Len(data.sites)
    /\ Len(selected_sites) = loop_passes - 1
    /\ Len(selected_sites) >= 2
    /\ DOMAIN remaining_targets # {}

---------------------------------------------------------------------------
(* The demographic filter and the growth kernel *)

\* a pass of the yearly loop that took the growth branch (lines 148-160)
GrowthPass ==
    /\ pc = "year_loop"
    /\ Len(population') = Len(population) + 1
    /\ Last(population) > 0

IsWhole(x) == x % SCALE = 0

\* the filter's two regimes on one pass: output N' and recorded value
TwoRegimes ==
    GrowthPass =>
        /\ grown_pop' >= Fix(DemographicThreshold) => Last(population') = grown_pop'
        /\ grown_pop' < Fix(DemographicThreshold) =>
              IsWhole(Last(population')) /\ Last(population') >= 0
        /\ Last(population') >= 0

\* C24: the demographic filter has two regimes: a growth output N' >= 100 is
\* recorded exactly; for N' < 100 the recorded value is a Poisson draw, some
\* non-negative integer; the recorded value is >= 0 in both.
C24_TwoRegimeFilter == [][TwoRegimes]_vars

\* a trajectory whose first year passed through and whose second year was
\* replaced by a whole number different from the growth output
C24_Witness ==
    /\ pc = "year_loop"
    /\ Len(population) = 3
    /\ population[2] >= Fix(DemographicThreshold)
    /\ ~IsWhole(population[2])
    /\ grown_pop < Fix(DemographicThreshold)
    /\ grown_pop > 0
    /\ population[3] # grown_pop
    /\ IsWhole(population[3])
    /\ population[3] > 0

\* the growth kernel on its own: a population size N, a realized growth rate
\* r_t and a capacity K, in the viability use (lines 152-154) and in the
\* metapopulation use (lines 204-209)
KernelSizes == {50, 100, 150, 200, 250}
KernelRates == {-(4 * SCALE) \div 5, -(SCALE \div 2), 0, SCALE \div 5, SCALE \div 2,
                (4 * SCALE) \div 5}
KernelCapacities == {100, 200}

KernelInputs ==
    [endpoint : {"kernel"}, use : {"viability", "metapopulation"}, N : KernelSizes,
     r_t : KernelRates, K : KernelCapacities]

ApplyKernel ==
    /\ pc = "received"
    /\ data.endpoint = "kernel"
    /\ grown_pop' =
          IF data.use = "viability"
          THEN GrowthKernel(data.r_t, Fix(data.N), data.K)
          ELSE MulFix(Fix(data.N), MetaGrowthFactor(data.r_t, Fix(data.N), data.K))
    /\ pc' = "done"
    /\ UNCHANGED <<data, response, sim, year, population, extinct, extinction_time,
                   trajectories, extinction_times, final_populations,
                   quasi_extinctions, metaLocals, planLocals>>

InitKernel == data \in KernelInputs /\ InitLocals

NextKernel == ApplyKernel

SpecKernel == InitKernel /\ [][NextKernel]_vars

KernelApplied == data.endpoint = "kernel" /\ pc = "done"

\* C25 as claimed: the kernel gives N' = N at N = K and N' < N whenever
\* N > K, for every realized growth rate r_t, in both uses.
C25_ZeroAtCapacityNegativeAbove ==
    KernelApplied =>
        /\ data.N = data.K => grown_pop = Fix(data.N)
        /\ data.N > data.K => grown_pop < Fix(data.N)

\* C25 as amended: the kernel gives N' = N at N = K for every realized
\* growth rate r_t; above K the sign of the net growth is opposite to the sign
\* of r_t: N' < N for r_t > 0, N' = N for r_t = 0 and N' > N for r_t < 0.
C25_ZeroAtCapacitySignAbove ==
    KernelApplied =>
        /\ data.N = data.K => grown_pop = Fix(data.N)
        /\ (data.N > data.K /\ data.r_t > 0) => grown_pop < Fix(data.N)
        /\ (data.N > data.K /\ data.r_t = 0) => grown_pop = Fix(data.N)
        /\ (data.N > data.K /\ data.r_t < 0) => grown_pop > Fix(data.N)

\* the metapopulation kernel applied above capacity with a negative rate
C25_Witness ==
    /\ KernelApplied
    /\ data.use = "metapopulation"
    /\ data.N > data.K
    /\ data.r_t < 0
    /\ grown_pop > Fix(data.N)

---------------------------------------------------------------------------
(* The diagonal of the migration matrix, the clamp and network extinction *)

WellFormedMeta == data.endpoint = "meta" /\ data.well_typed /\ ~MalformedMetaRequest

\* one year computed from the entries migration_matrix[i][j], i # j, alone
OffDiagonalYear(row) ==
    LET g == Growth(row)
    IN  Clamp([i \in Patches |-> g[i] - Emigrants(g, i) + Immigrants(g, i)])

\* C26: the diagonal of the migration matrix is ignored: patch_populations,
\* total_population and extinction_risk at every year are determined by the
\* request without its entries migration_matrix[i][i], so two runs that
\* differ only in these entries return the same.
C26_DiagonalIgnored ==
    WellFormedMeta =>
        /\ \A row \in MetaRows \ {1} :
              populations[row] = OffDiagonalYear(populations[row - 1])
        /\ Returned =>
              /\ response.patch_populations = populations
              /\ \A t \in 1 .. data.years + 1 :
                    /\ response.total_population[t] = SumSeq(populations[t])
                    /\ response.extinction_risk[t] =
                          IF t = 1 THEN 0 ELSE ExtinctionRisk(populations[t])

\* a returned run with migration between two occupied patches and a
\* diagonal that is not zero
C26_Witness ==
    /\ WellFormedMeta
    /\ Returned
    /\ data.years >= 1
    /\ n_patches = 2
    /\ data.migration_matrix[1][1] > 0
    /\ data.migration_matrix[2][2] > 0
    /\ Emigrants(post_growth, 1) > 0
    /\ Emigrants(post_growth, 2) > 0

\* the request's rates are all >= 0, no patch sends out more than it holds,
\* and no patch starts below 0
BoundedOutflow ==
    /\ WellFormedMeta
    /\ \A i \in Patches : \A j \in Patches : data.migration_matrix[i][j] >= 0
    /\ \A i \in Patches : OutflowRate(i) <= SCALE
    /\ \A i \in Patches : data.patch_populations[i] >= 0

\* the total recorded for the year simulated last
RecordedTotal ==
    IF pc = "done" THEN response.total_population[year + 1] ELSE total_pops[year]

ClampActs == Clamp(post_migration) # post_migration

\* C27: if all migration rates are >= 0, every patch's off-diagonal outflow
\* rates sum to <= 1 and all initial patch populations are >= 0, the clamp
\* changes no value and the total recorded for year t+1 is the sum of the
\* post-growth populations of year t; and in any run, a clamp that changes a
\* value only raises it, and the recorded total is then strictly greater than
\* the post-growth total.
C27_ClampIdleUnderBoundedOutflow ==
    (WellFormedMeta /\ pc \in {"meta_loop", "done"} /\ year >= 1) =>
        /\ populations[year + 1] = Clamp(post_migration)
        /\ RecordedTotal = SumSeq(populations[year + 1])
        /\ BoundedOutflow =>
              /\ ~ClampActs
              /\ \A row \in MetaRows : \A i \in Patches : populations[row][i] >= 0
              /\ RecordedTotal = SumSeq(post_growth)
        /\ ClampActs =>
              /\ \A i \in Patches : populations[year + 1][i] >= post_migration[i]
              /\ RecordedTotal > SumSeq(post_growth)

\* a year in which an occupied patch sends out part of what it holds, under
\* rates that satisfy the condition
C27_Witness ==
    /\ BoundedOutflow
    /\ Returned
    /\ year >= 1
    /\ \E i \in Patches :
          /\ Emigrants(post_growth, i) > 0
          /\ post_migration[i] < post_growth[i]
          /\ post_migration[i] >= 0
    /\ RecordedTotal = SumSeq(post_growth)

\* a year in which the clamp raised a value
ClampActed ==
    /\ WellFormedMeta
    /\ Returned
    /\ year >= 1
    /\ ClampActs
    /\ RecordedTotal > SumSeq(post_growth)

AllEmpty(row) == \A i \in Patches : populations[row][i] = 0

\* C28: extinction of the whole network is absorbing, extinction of a single
\* patch is not: if every patch holds 0 at year t, every patch holds 0 at
\* every later year, whatever the migration matrix; a patch at 0 receives no
\* growth (and can be occupied again only by immigrants, PatchRecolonised).
C28_NetworkExtinctionAbsorbing ==
    WellFormedMeta =>
        /\ \A r1 \in MetaRows : \A r2 \in MetaRows :
              (r1 < r2 /\ AllEmpty(r1)) => AllEmpty(r2)
        /\ (pc \in {"meta_loop", "done"} /\ year >= 1) =>
              \A i \in Patches : populations[year][i] = 0 => post_growth[i] = 0

\* an empty patch beside an occupied one, occupied again a year later
PatchRecolonised ==
    /\ WellFormedMeta
    /\ Returned
    /\ year >= 1
    /\ \E i \in Patches : \E j \in Patches \ {i} :
          /\ response.patch_populations[year][i] = 0
          /\ response.patch_populations[year][j] > 0
          /\ post_growth[i] = 0
          /\ Immigrants(post_growth, i) > 0
          /\ response.patch_populations[year + 1][i] > 0

\* an empty network that stayed empty over the simulated years
C28_Witness ==
    /\ WellFormedMeta
    /\ Returned
    /\ year >= 2
    /\ \E i \in Patches : data.migration_matrix[i][i] > 0
    /\ \A r \in MetaRows : AllEmpty(r)

---------------------------------------------------------------------------
(* Runs that start at or below the quasi-extinction threshold *)

SmallStart ==
    /\ data.endpoint = "pva"
    /\ data.well_typed
    /\ data.initial_population <= quasi_threshold

\* C29: a population-viability run with initial_population <= 50 returns
\* quasi_extinction_probability = 1, for every choice of growth rate,
\* variance, capacity, horizon and random draws.
C29_SmallStartQuasiCertain ==
    (SmallStart /\ pc \in {"done", "error"}) =>
        /\ Returned
        /\ response.quasi_extinction_probability = Fix(1)

\* the same for the runs with at least one replicate that return a result
SmallStartQuasiCertainWhenReturned ==
    (SmallStart /\ Returned /\ data.simulations > 0) =>
        /\ quasi_extinctions = data.simulations
        /\ response.quasi_extinction_probability = Fix(1)

\* a run from 40 individuals whose replicates grew past the threshold
SmallStartGrew ==
    /\ SmallStart
    /\ Returned
    /\ data.simulations >= 2
    /\ data.initial_population > 0
    /\ \A i \in 1 .. Len(trajectories) : Last(trajectories[i]) > Fix(quasi_threshold)
    /\ response.quasi_extinction_probability = Fix(1)

====
